---- MODULE Spec2Model ----
(***************************************************************************)
(* Verification model of three parts of the Django backend:                *)
(*   - stocks/token_manager.py : KISTokenManager (SpecToken)               *)
(*   - accounts/redis_otp.py, accounts/serializers.py : OTP flows (SpecOTP)*)
(*   - stocks/utils.py : rate_limit_decorator (SpecRate)                   *)
(* Time is the wall clock in whole seconds (datetime.now(), Redis TTLs).   *)
(***************************************************************************)
EXTENDS Integers, Sequences, FiniteSets, TLC

VARIABLES
    now,          \* wall clock, seconds
    \* ---- KISTokenManager (Redis keys, locks, one get_token call per caller)
    cacheTok,     \* Redis key kis_api_token:          [val, exp]
    cacheExp,     \* Redis key kis_api_token_expires:  [val, exp], and of:
                  \*   the token whose issuance wrote the value
    cacheLock,    \* Redis key kis_api_token_lock:     [holder, exp]
    localLock,    \* per process: the thread holding self._local_lock
    procOf,       \* per caller: the worker process its thread runs in
    th,           \* per caller: position in get_token and its local variables
    nextToken,    \* KIS: next access token to be issued
    failed,       \* some request to KIS has failed
    realExpiry,   \* per token issued by KIS: the end of its lifetime
    \* ---- RedisOTPManager, signup completion, password reset
    otp,          \* Redis keys otp:{email}:{purpose}: [val, exp]
    users,        \* emails of the rows of the User table
    password,     \* per email: the password of that User row
    req,          \* per request slot: the running handler and its locals
    issued,       \* number of OTPs issued so far (id of the latest)
    issuedAt,     \* per OTP id: the time of its issue
    usedBy,       \* per OTP id: completions / resets it has authorised
    wrongSubmitted, \* per OTP id: wrong codes submitted against it
    lateAccept,   \* a code was accepted after 5 wrong ones against its OTP
    resets,       \* number of password resets performed
    lag,          \* seconds spent so far between two Redis commands
    \* ---- rate_limit_decorator
    last_api_call,      \* global _last_api_call (-1 = None)
    api_call_count,     \* global _api_call_count
    rate_limit_window,  \* global _rate_limit_window
    starts,             \* start times of the wrapped function, with its limit
    \* ---- retry_on_429
    rt,           \* one call of a function decorated with retry_on_429
    \* ---- get_token_manager
    token_manager,  \* module global _token_manager
    mgr,            \* per thread: position in get_token_manager, its result
    instances       \* KISTokenManager objects constructed so far

tokenVars == <<cacheTok, cacheExp, cacheLock, localLock, procOf, th, nextToken,
               failed, realExpiry>>
otpVars == <<otp, users, password, req, issued, issuedAt, usedBy,
             wrongSubmitted, lateAccept, resets, lag>>
rateVars == <<last_api_call, api_call_count, rate_limit_window, starts>>
retryVars == <<rt>>
singletonVars == <<token_manager, mgr, instances>>
vars == <<now, tokenVars, otpVars, rateVars, retryVars, singletonVars>>

(***************************************************************************)
(* KISTokenManager                                                         *)
(***************************************************************************)

\* Threads calling get_token, and the worker processes they may run in (all
\* on the same Redis): the two threads share a process, and with it the
\* singleton's _local_lock, or run in two processes.
Callers == {"c1", "c2"}
Procs == {"A", "B"}
Deployments == {[c \in Callers |-> "A"],
                [c \in Callers |-> IF c = "c1" THEN "A" ELSE "B"]}
Proc(c) == procOf[c]

MaxTime == 66

LOCK_TIMEOUT == 30
TOKEN_BUFFER_TIME == 300
MAX_RETRIES == 5
BASE_WAIT_TIME == 2

\* expires_in values the KIS response may carry
ExpiresInChoices == {360, 86400}

\* Outcomes of requests.post(...), raise_for_status(), json(), get("access_token")
Outcomes == {"ok", "Timeout", "ConnectionError", "HTTP403", "HTTP429",
             "HTTPOther", "RequestException", "NoAccessToken", "Unexpected"}

None == 0            \* cache.get of a missing key; also a falsy token
NoStr == <<>>        \* cache.get of a missing kis_api_token_expires
NoOne == "none"

RECURSIVE Pow2(_)
Pow2(n) == IF n = 0 THEN 1 ELSE 2 * Pow2(n - 1)

\* datetime.isoformat() / datetime.fromisoformat(): the string form of a datetime
isoformat(t) == <<"iso", t>>
fromisoformat(s) == s[2]

\* django cache.get: the value of a key that has not reached its Redis expiry
CacheGet(entry, missing) == IF now < entry.exp THEN entry.val ELSE missing

\* `if token and expires_str:` ... `datetime.now() < expires_at`
TokenValid_Reversed(token, expires_str) ==
    /\ token # None
    /\ expires_str # NoStr
    /\ now > fromisoformat(expires_str)
TokenValid(token, expires_str) ==
    /\ token # None
    /\ expires_str # NoStr
    /\ now < fromisoformat(expires_str)

\* The except clauses of _request_new_token / _request_new_token_direct, in
\* order: the exception class that leaves the function for each outcome.
\* A response without access_token raises KISTokenError inside the try, which
\* the last clause, `except Exception`, catches and re-raises as KISTokenError.
RaisedBy_NoCatchAll(o) ==
    CASE o = "Timeout" -> "KISTokenError"
      [] o = "ConnectionError" -> "KISTokenError"
      [] o \in {"HTTP403", "HTTP429", "HTTPOther"} -> "KISTokenError"
      [] o = "RequestException" -> "KISTokenError"
      [] o = "NoAccessToken" -> "KISTokenError"
      [] OTHER -> "ValueError"
RaisedBy(o) ==
    CASE o = "Timeout" -> "KISTokenError"
      [] o = "ConnectionError" -> "KISTokenError"
      [] o \in {"HTTP403", "HTTP429", "HTTPOther"} -> "KISTokenError"
      [] o = "RequestException" -> "KISTokenError"
      [] OTHER -> "KISTokenError"

\* A caller that has not called get_token yet.  Fields: pc the position;
\* ctx the call site of the request under way; token, retry, wake (end of
\* time.sleep), new_token, expires_at, expires_in the locals of the code;
\* pending what is leaving the try/finally; result the outcome of get_token;
\* reqs the number of POSTs to /oauth2/tokenP this call has sent; late whether
\* the call began after another call had returned; via the return statement
\* that ended the call.
Fresh == [pc |-> "idle", ctx |-> "none", token |-> None, retry |-> 0, wake |-> 0,
          new_token |-> None, expires_at |-> 0, expires_in |-> 0,
          pending |-> <<"none", 0>>, result |-> <<"none", 0>>, reqs |-> 0,
          late |-> FALSE, via |-> "none"]

\* get_token has returned `res`: its locals are gone
Returned(t, res, site) ==
    [Fresh EXCEPT !.pc = "done", !.result = res, !.reqs = t.reqs, !.late = t.late,
                  !.via = site]

\* requests.post(url, json=data, headers=headers, timeout=30), lines 215 / 285,
\* called from `site`: the request is on its way to /oauth2/tokenP
Post(t, site) == [t EXCEPT !.pc = "await", !.ctx = site, !.reqs = @ + 1]

\* lines 131-138: wait_time = base_wait_time * (2**retry); time.sleep(wait_time)
Sleep_Linear(t, k) == [t EXCEPT !.pc = "wait_tok", !.token = None, !.retry = k,
                                !.wake = now + BASE_WAIT_TIME * (k + 1)]
Sleep(t, k) == [t EXCEPT !.pc = "wait_tok", !.token = None, !.retry = k,
                         !.wake = now + BASE_WAIT_TIME * Pow2(k)]

InFlight(c) == th[c].pc = "await"

TokenFrame == UNCHANGED <<now, otpVars, rateVars, retryVars, singletonVars>>

\* get_token, line 78: token = cache.get(TOKEN_KEY)
get_token_read(c) ==
    /\ th[c].pc = "idle"
    /\ th' = [th EXCEPT ![c] = [@ EXCEPT !.pc = "gt_exp",
                                         !.token = CacheGet(cacheTok, None),
                                         !.late = \E d \in Callers : th[d].pc = "done"]]
    /\ UNCHANGED <<cacheTok, cacheExp, cacheLock, localLock, procOf, nextToken, failed,
                   realExpiry>>
    /\ TokenFrame

\* get_token, lines 79-94: expires_str = cache.get(...); return the cached
\* token if it is valid, else go on to _refresh_token
get_token_check(c) ==
    /\ th[c].pc = "gt_exp"
    /\ th' = [th EXCEPT ![c] =
                IF TokenValid(@.token, CacheGet(cacheExp, NoStr))
                THEN Returned(@, <<"ok", @.token>>, "cached")
                ELSE [@ EXCEPT !.pc = "refresh", !.token = None]]
    /\ UNCHANGED <<cacheTok, cacheExp, cacheLock, localLock, procOf, nextToken, failed,
                   realExpiry>>
    /\ TokenFrame

\* _refresh_token, lines 115-121: `with self._local_lock:` and
\* cache.add(TOKEN_LOCK_KEY, "locked", timeout=LOCK_TIMEOUT)
refresh_token_acquire(c) ==
    /\ th[c].pc = "refresh"
    /\ localLock[Proc(c)] = NoOne
    /\ localLock' = [localLock EXCEPT ![Proc(c)] = c]
    /\ IF now < cacheLock.exp
       THEN /\ th' = [th EXCEPT ![c] = Sleep(@, 0)]
            /\ UNCHANGED cacheLock
       ELSE /\ cacheLock' = [holder |-> c, exp |-> now + LOCK_TIMEOUT]
            /\ th' = [th EXCEPT ![c] = [@ EXCEPT !.pc = "dc_tok"]]
    /\ UNCHANGED <<cacheTok, cacheExp, procOf, nextToken, failed,
                   realExpiry>>
    /\ TokenFrame

\* _refresh_token, line 141: after the sleep, token = cache.get(TOKEN_KEY)
refresh_token_wait_read(c) ==
    /\ th[c].pc = "wait_tok"
    /\ now >= th[c].wake
    /\ th' = [th EXCEPT ![c] = [@ EXCEPT !.pc = "wait_exp", !.wake = 0,
                                         !.token = CacheGet(cacheTok, None)]]
    /\ UNCHANGED <<cacheTok, cacheExp, cacheLock, localLock, procOf, nextToken, failed,
                   realExpiry>>
    /\ TokenFrame

\* _refresh_token, lines 131-159: return a valid token (leaving the with
\* block), loop, or after max_retries call _request_new_token_direct
refresh_token_wait_check(c) ==
    /\ th[c].pc = "wait_exp"
    /\ IF TokenValid(th[c].token, CacheGet(cacheExp, NoStr))
       THEN /\ th' = [th EXCEPT ![c] = Returned(@, <<"ok", @.token>>, "waited")]
            /\ localLock' = [localLock EXCEPT ![Proc(c)] = NoOne]
       ELSE IF th[c].retry + 1 < MAX_RETRIES
       THEN /\ th' = [th EXCEPT ![c] = Sleep(@, @.retry + 1)]
            /\ UNCHANGED localLock
       ELSE /\ th' = [th EXCEPT ![c] =
                        Post([@ EXCEPT !.token = None, !.retry = 0], "wait")]
            /\ UNCHANGED localLock
    /\ UNCHANGED <<cacheTok, cacheExp, cacheLock, procOf, nextToken, failed,
                   realExpiry>>
    /\ TokenFrame

\* _refresh_token, line 163: double-checked locking, token = cache.get(TOKEN_KEY)
refresh_token_dc_read(c) ==
    /\ th[c].pc = "dc_tok"
    /\ th' = [th EXCEPT ![c] = [@ EXCEPT !.pc = "dc_exp",
                                         !.token = CacheGet(cacheTok, None)]]
    /\ UNCHANGED <<cacheTok, cacheExp, cacheLock, localLock, procOf, nextToken, failed,
                   realExpiry>>
    /\ TokenFrame

\* _refresh_token, lines 164-176: return the fresh token (through finally)
\* or call _request_new_token
refresh_token_dc_check(c) ==
    /\ th[c].pc = "dc_exp"
    /\ th' = [th EXCEPT ![c] =
                IF TokenValid(@.token, CacheGet(cacheExp, NoStr))
                THEN [@ EXCEPT !.pc = "release", !.pending = <<"return", th[c].token>>,
                               !.token = None]
                ELSE Post([@ EXCEPT !.token = None], "locked")]
    /\ UNCHANGED <<cacheTok, cacheExp, cacheLock, localLock, procOf, nextToken, failed,
                   realExpiry>>
    /\ TokenFrame

\* _refresh_token, lines 181-192: finally: cache.delete(TOKEN_LOCK_KEY); the
\* with block ends; a return leaves get_token, an exception is caught by
\* `except Exception` and answered with _request_new_token_direct()
refresh_token_release_KeepsLocalLock(c) ==
    /\ th[c].pc = "release"
    /\ cacheLock' = [holder |-> NoOne, exp |-> 0]
    /\ th' = [th EXCEPT ![c] =
                IF @.pending[1] = "return"
                THEN Returned(@, <<"ok", @.pending[2]>>, "refreshed")
                ELSE Post([@ EXCEPT !.pending = <<"none", 0>>], "refresh_except")]
    /\ UNCHANGED <<cacheTok, cacheExp, localLock, procOf, nextToken, failed,
                   realExpiry>>
    /\ TokenFrame
refresh_token_release_NoFinally(c) ==
    /\ th[c].pc = "release"
    /\ cacheLock' = IF th[c].pending[1] = "return"
                    THEN [holder |-> NoOne, exp |-> 0] ELSE cacheLock
    /\ localLock' = [localLock EXCEPT ![Proc(c)] = NoOne]
    /\ th' = [th EXCEPT ![c] =
                IF @.pending[1] = "return"
                THEN Returned(@, <<"ok", @.pending[2]>>, "refreshed")
                ELSE Post([@ EXCEPT !.pending = <<"none", 0>>], "refresh_except")]
    /\ UNCHANGED <<cacheTok, cacheExp, procOf, nextToken, failed,
                   realExpiry>>
    /\ TokenFrame
refresh_token_release(c) ==
    /\ th[c].pc = "release"
    /\ cacheLock' = [holder |-> NoOne, exp |-> 0]
    /\ localLock' = [localLock EXCEPT ![Proc(c)] = NoOne]
    /\ th' = [th EXCEPT ![c] =
                IF @.pending[1] = "return"
                THEN Returned(@, <<"ok", @.pending[2]>>, "refreshed")
                ELSE Post([@ EXCEPT !.pending = <<"none", 0>>], "refresh_except")]
    /\ UNCHANGED <<cacheTok, cacheExp, procOf, nextToken, failed,
                   realExpiry>>
    /\ TokenFrame

\* Where an exception raised by the request goes, by call site:
\*   locked           line 176, inside try/finally: finally runs first
\*   wait             line 159, inside the with block: caught at line 188
\*   refresh_except   line 192: leaves _refresh_token, caught at line 96
\*   get_token_except line 101: leaves get_token
Raise(c, exc) ==
    CASE th[c].ctx = "locked" ->
           /\ th' = [th EXCEPT ![c] = [@ EXCEPT !.pc = "release",
                                                !.pending = <<"raise", exc>>]]
           /\ UNCHANGED localLock
      [] th[c].ctx = "wait" ->
           /\ th' = [th EXCEPT ![c] = Post(@, "refresh_except")]
           /\ localLock' = [localLock EXCEPT ![Proc(c)] = NoOne]
      [] th[c].ctx = "refresh_except" ->
           /\ th' = [th EXCEPT ![c] = Post(@, "get_token_except")]
           /\ UNCHANGED localLock
      [] OTHER ->
           /\ th' = [th EXCEPT ![c] = Returned(@, <<"raise", exc>>, "raised")]
           /\ UNCHANGED localLock

\* lines 216-228 / 286-298: the response arrives (or the request fails);
\* expires_at = datetime.now() + timedelta(seconds=expires_in - TOKEN_BUFFER_TIME)
request_respond(c) ==
    /\ th[c].pc = "await"
    /\ \E o \in Outcomes, ei \in ExpiresInChoices :
         IF o = "ok"
         THEN /\ th' = [th EXCEPT ![c] =
                          [@ EXCEPT !.pc = "set_tok", !.new_token = nextToken,
                                    !.expires_in = ei,
                                    !.expires_at = now + ei - TOKEN_BUFFER_TIME]]
              /\ nextToken' = nextToken + 1
              /\ realExpiry' = (nextToken :> now + ei) @@ realExpiry
              /\ UNCHANGED <<localLock, failed>>
         ELSE /\ Raise(c, RaisedBy(o))
              /\ failed' = TRUE
              /\ UNCHANGED <<nextToken, realExpiry>>
    /\ UNCHANGED <<cacheTok, cacheExp, cacheLock, procOf>>
    /\ TokenFrame

\* lines 232 / 302: cache.set(TOKEN_KEY, token, timeout=expires_in)
cache_set_token(c) ==
    /\ th[c].pc = "set_tok"
    /\ cacheTok' = [val |-> th[c].new_token, exp |-> now + th[c].expires_in]
    /\ th' = [th EXCEPT ![c] = [@ EXCEPT !.pc = "set_exp"]]
    /\ UNCHANGED <<cacheExp, cacheLock, localLock, procOf, nextToken, failed,
                   realExpiry>>
    /\ TokenFrame

\* lines 233-240 / 303-315: cache.set(TOKEN_EXPIRES_KEY, expires_at.isoformat(),
\* timeout=expires_in); return token
cache_set_expires(c) ==
    /\ th[c].pc = "set_exp"
    /\ cacheExp' = [val |-> isoformat(th[c].expires_at),
                    exp |-> now + th[c].expires_in, of |-> th[c].new_token]
    /\ CASE th[c].ctx = "locked" ->
              /\ th' = [th EXCEPT ![c] =
                          [@ EXCEPT !.pc = "release",
                                    !.pending = <<"return", th[c].new_token>>,
                                    !.new_token = None, !.expires_at = 0,
                                    !.expires_in = 0]]
              /\ UNCHANGED localLock
         [] th[c].ctx = "wait" ->
              /\ th' = [th EXCEPT ![c] = Returned(@, <<"ok", @.new_token>>, "direct")]
              /\ localLock' = [localLock EXCEPT ![Proc(c)] = NoOne]
         [] OTHER ->
              /\ th' = [th EXCEPT ![c] = Returned(@, <<"ok", @.new_token>>, "direct")]
              /\ UNCHANGED localLock
    /\ UNCHANGED <<cacheTok, cacheLock, procOf, nextToken, failed,
                   realExpiry>>
    /\ TokenFrame

\* _request_new_token: the request made while holding the Redis lock
request_new_token(c) ==
    /\ th[c].ctx = "locked"
    /\ request_respond(c) \/ cache_set_token(c) \/ cache_set_expires(c)

\* _request_new_token_direct: the request made without the Redis lock
request_new_token_direct(c) ==
    /\ th[c].ctx # "locked"
    /\ request_respond(c) \/ cache_set_token(c) \/ cache_set_expires(c)

\* The instants at which something changes by the passing of time alone: a
\* time.sleep ends, a Redis key reaches its expiry, the stored expires_at passes
Deadlines ==
    {th[c].wake : c \in {d \in Callers : th[d].pc = "wait_tok"}}
    \cup {cacheLock.exp, cacheTok.exp, cacheExp.exp}
    \cup (IF cacheExp.val = NoStr THEN {} ELSE {fromisoformat(cacheExp.val)})

\* Time passes, up to the next such instant
Tick ==
    /\ \E t \in Deadlines :
         /\ t > now
         /\ t <= MaxTime
         /\ \A u \in Deadlines : u > now => t <= u
         /\ now' = t
    /\ UNCHANGED <<tokenVars, otpVars, rateVars, retryVars, singletonVars>>

\* A token of an earlier issuance that is in the last TOKEN_BUFFER_TIME
\* seconds of its lifetime: its stored expiry has just passed, both keys are
\* still in Redis (their timeout is expires_in)
Stale == [token |-> 99, expires_in |-> 360, issued |-> -60]
StaleCache ==
    [tok |-> [val |-> Stale.token, exp |-> Stale.issued + Stale.expires_in],
     exp |-> [val |-> isoformat(Stale.issued + Stale.expires_in - TOKEN_BUFFER_TIME),
              exp |-> Stale.issued + Stale.expires_in, of |-> Stale.token],
     real |-> (Stale.token :> Stale.issued + Stale.expires_in)]
EmptyCache ==
    [tok |-> [val |-> None, exp |-> 0],
     exp |-> [val |-> NoStr, exp |-> 0, of |-> None],
     real |-> <<>>]

\* The workers start with nothing cached or with such a token cached
InitToken ==
    /\ \E init \in {EmptyCache, StaleCache} :
         cacheTok = init.tok /\ cacheExp = init.exp /\ realExpiry = init.real
    /\ cacheLock = [holder |-> NoOne, exp |-> 0]
    /\ localLock = [p \in Procs |-> NoOne]
    /\ procOf \in Deployments
    /\ th = [c \in Callers |-> Fresh]
    /\ nextToken = 1
    /\ failed = FALSE

\* The OTP and rate-limit state is not used by KISTokenManager
IdleOTP ==
    /\ otp = <<>> /\ users = {} /\ password = <<>> /\ req = <<>> /\ issued = 0
    /\ issuedAt = <<>> /\ usedBy = <<>> /\ wrongSubmitted = <<>>
    /\ lateAccept = FALSE /\ resets = 0 /\ lag = 0

\* _last_api_call = None
NeverCalled == -1

IdleRate ==
    /\ last_api_call = NeverCalled /\ api_call_count = 0 /\ rate_limit_window = 0
    /\ starts = <<>>

\* No decorated function is being called; get_token_manager has not been called
IdleRetry == rt = <<>>
IdleSingleton == token_manager = None /\ mgr = <<>> /\ instances = 0

get_token(c) == get_token_read(c) \/ get_token_check(c)

refresh_token(c) ==
    \/ refresh_token_acquire(c)
    \/ refresh_token_wait_read(c)
    \/ refresh_token_wait_check(c)
    \/ refresh_token_dc_read(c)
    \/ refresh_token_dc_check(c)
    \/ refresh_token_release(c)

NextToken ==
    \/ \E c \in Callers : get_token(c)
    \/ \E c \in Callers : refresh_token(c)
    \/ \E c \in Callers : request_new_token(c)
    \/ \E c \in Callers : request_new_token_direct(c)
    \/ Tick

InitTokenSpec ==
    now = 0 /\ InitToken /\ IdleOTP /\ IdleRate /\ IdleRetry /\ IdleSingleton

SpecToken == InitTokenSpec /\ [][NextToken]_vars

----------------------------------------------------------------------------
(* Claims about KISTokenManager, checked under SpecToken *)

\* C1: token refresh is mutually exclusive: at no time are two callers
\* executing a token-issuance request to /oauth2/tokenP.
C1_MutualExclusion == Cardinality({c \in Callers : InFlight(c)}) <= 1

\* C2: when KIS answers every request successfully, all get_token calls that
\* run concurrently (none began after another had returned) return the same
\* token.
C2_SharedToken ==
    ~failed =>
      \A c, d \in Callers :
        (/\ th[c].pc = "done" /\ th[d].pc = "done"
         /\ ~th[c].late /\ ~th[d].late
         /\ th[c].result[1] = "ok" /\ th[d].result[1] = "ok")
        => th[c].result[2] = th[d].result[2]

\* The state get_token decides on: the token it read was cached, the key
\* kis_api_token_expires is cached, and the clock is before the stored expiry
C3_CachedUnexpired(c) ==
    /\ th[c].pc = "gt_exp"
    /\ th[c].token # None
    /\ now < cacheExp.exp
    /\ cacheExp.val # NoStr
    /\ now < cacheExp.val[2]

\* C3: whenever both keys are cached and the current time is before the
\* stored expiry, get_token returns the cached token and has sent no request.
C3_CacheHit ==
    [][\A c \in Callers :
         (C3_CachedUnexpired(c) /\ th'[c] # th[c])
         => (/\ th'[c].pc = "done"
             /\ th'[c].result = <<"ok", th[c].token>>
             /\ th'[c].reqs = 0)]_vars

C3_Witness == \E c \in Callers : th[c].via = "cached" /\ th[c].reqs = 0

\* C4: when no token request to KIS ever succeeds (so no valid token is
\* cached), a get_token call that ends has raised KISTokenError, no other
\* exception type, and returned no token.
C4_RaisesKISTokenError ==
    \A c \in Callers :
      (th[c].pc = "done" /\ nextToken = 1)
      => th[c].result = <<"raise", "KISTokenError">>

C4_Witness ==
    \E c \in Callers : th[c].pc = "done" /\ nextToken = 1 /\ th[c].reqs = 3
                        /\ th[c].result[1] = "raise"

(***************************************************************************)
(* RedisOTPManager, signup completion and password reset                   *)
(* Every HTTP request runs in its own worker thread or process; its Redis  *)
(* commands and database statements interleave with those of the others.   *)
(***************************************************************************)

Emails == {"u@x"}
PURPOSE_SIGNUP == "signup"
PURPOSE_PASSWORD_RESET == "password_reset"
Purposes == {PURPOSE_SIGNUP, PURPOSE_PASSWORD_RESET}
GeneratedCodes == {"000001"}        \* the 6-digit code issue() draws
SubmittedCodes == {"000001", "000002"}   \* what a client may send
Passwords == {"pw1"}
Slots == {1, 2}                     \* requests being served at the same time

DEFAULT_TTL_MINUTES == 10
MAX_ATTEMPTS == 5
MaxIssues == 1
MaxResets == 2
MaxLag == 1

\* _generate_key: f"otp:{email}:{purpose}"
generate_key(email, purpose) == <<"otp", email, purpose>>
OTPKeys == {generate_key(e, p) : e \in Emails, p \in Purposes}

\* _hash / _verify_hash: PBKDF2 of the code under a salt, stored as hash:salt
pbkdf2_hmac(code, salt) == <<"sha256", code, salt>>
hash(code, salt) == <<pbkdf2_hmac(code, salt), salt>>
verify_hash(code, stored_hash) == pbkdf2_hmac(code, stored_hash[2]) = stored_hash[1]

\* json.dumps / json.loads of the otp_data dict
dumps(data) == <<"json", data>>
loads(str) == str[2]
NoData == <<>>

\* django-redis on one key: get, ttl (0 for a missing key), set (a timeout
\* of 0 or less deletes the key), delete
Missing == [val |-> NoData, exp |-> 0]
OtpGet(key) == IF now < otp[key].exp THEN otp[key].val ELSE NoData
OtpTtl(key) == IF now < otp[key].exp THEN otp[key].exp - now ELSE 0
OtpSet(key, val, timeout) ==
    [otp EXCEPT ![key] = IF timeout <= 0 THEN Missing
                         ELSE [val |-> val, exp |-> now + timeout]]
OtpDelete(key) == [otp EXCEPT ![key] = Missing]

\* A request slot with no request in it.  Fields: kind and pc the handler and
\* its position; email, purpose, code, new_password the request body;
\* otp_data the dict the handler read; ttl the result of cache.ttl; success
\* what verify will return; late whether that OTP had already had
\* MAX_ATTEMPTS wrong codes submitted.
IdleSlot == [kind |-> "idle", pc |-> "idle", email |-> "", purpose |-> "",
             new_password |-> "", otp_data |-> NoData, ttl |-> 0,
             success |-> FALSE, late |-> FALSE]

\* A new request is taken by the first worker that is free
Free(r) == /\ req[r].kind = "idle"
           /\ \A q \in Slots : q < r => req[q].kind # "idle"

Inc(f, i, cap) == [f EXCEPT ![i] = IF @ < cap THEN @ + 1 ELSE @]

OTPFrame == UNCHANGED <<now, tokenVars, rateVars, retryVars, singletonVars>>

\* RedisOTPManager.issue (lines 107-127) as called by the OTP request views:
\* signup only for an unregistered email, password_reset only for a
\* registered one (serializers.py 159-178, 205-222); when send_mail fails the
\* view deletes the OTP again (views.py 162-170, 221-229)
\* The field id stands for created_at: it tells which issuance a dict is from.
issue(email, purpose, code, mail_sent) ==
    /\ issued < MaxIssues
    /\ IF purpose = PURPOSE_SIGNUP THEN email \notin users ELSE email \in users
    /\ issued' = issued + 1
    /\ issuedAt' = [issuedAt EXCEPT ![issued + 1] = now]
    /\ LET otp_data == [id |-> issued + 1, code_hash |-> hash(code, "salt"),
                        attempts |-> 0, verified |-> FALSE,
                        purpose |-> purpose, email |-> email]
           key == generate_key(email, purpose)
       IN  otp' = IF mail_sent
                  THEN OtpSet(key, dumps(otp_data), DEFAULT_TTL_MINUTES * 60)
                  ELSE OtpDelete(key)
    /\ UNCHANGED <<users, password, req, usedBy, wrongSubmitted, lateAccept,
                   resets, lag>>
    /\ OTPFrame

\* RedisOTPManager.verify, lines 145-167: cache.get, json.loads, the attempt
\* limit and the comparison of the code
verify_get(r, email, purpose, code) ==
    /\ Free(r)
    /\ LET key == generate_key(email, purpose)
           cached_data == OtpGet(key)
           otp_data == loads(cached_data)
           me == [IdleSlot EXCEPT !.kind = "verify", !.email = email,
                                  !.purpose = purpose]
       IN  IF cached_data = NoData
           THEN /\ UNCHANGED <<req, wrongSubmitted>>
           ELSE IF otp_data.attempts >= MAX_ATTEMPTS
           THEN /\ req' = [req EXCEPT ![r] = [me EXCEPT !.pc = "delete"]]
                /\ UNCHANGED wrongSubmitted
           ELSE IF ~verify_hash(code, otp_data.code_hash)
           THEN /\ req' = [req EXCEPT ![r] =
                            [me EXCEPT !.pc = "ttl",
                                       !.otp_data = [otp_data EXCEPT !.attempts = @ + 1]]]
                /\ wrongSubmitted' = Inc(wrongSubmitted, otp_data.id, MAX_ATTEMPTS)
           ELSE /\ req' = [req EXCEPT ![r] =
                            [me EXCEPT !.pc = "ttl", !.success = TRUE,
                                       !.late = wrongSubmitted[otp_data.id] >= MAX_ATTEMPTS,
                                       !.otp_data = [otp_data EXCEPT !.verified = TRUE]]]
                /\ UNCHANGED wrongSubmitted
    /\ UNCHANGED <<otp, users, password, issued, issuedAt, usedBy, lateAccept,
                   resets, lag>>
    /\ OTPFrame

\* RedisOTPManager.verify, lines 157-160: cache.delete(key) once the attempts
\* are used up
verify_delete(r) ==
    /\ req[r].kind = "verify" /\ req[r].pc = "delete"
    /\ otp' = OtpDelete(generate_key(req[r].email, req[r].purpose))
    /\ req' = [req EXCEPT ![r] = IdleSlot]
    /\ UNCHANGED <<users, password, issued, issuedAt, usedBy, wrongSubmitted,
                   lateAccept, resets, lag>>
    /\ OTPFrame

\* RedisOTPManager.verify, lines 166 / 171: the argument cache.ttl(key)
verify_ttl(r) ==
    /\ req[r].kind = "verify" /\ req[r].pc = "ttl"
    /\ req' = [req EXCEPT ![r] =
                 [@ EXCEPT !.pc = "set",
                           !.ttl = OtpTtl(generate_key(req[r].email, req[r].purpose))]]
    /\ UNCHANGED <<otp, users, password, issued, issuedAt, usedBy, wrongSubmitted,
                   lateAccept, resets, lag>>
    /\ OTPFrame

\* RedisOTPManager.verify, lines 166-173: cache.set(key, json.dumps(otp_data),
\* timeout=<that ttl>) and the return
verify_set(r) ==
    /\ req[r].kind = "verify" /\ req[r].pc = "set"
    /\ otp' = OtpSet(generate_key(req[r].email, req[r].purpose),
                     dumps(req[r].otp_data), req[r].ttl)
    /\ lateAccept' = (lateAccept \/ (req[r].success /\ req[r].late))
    /\ req' = [req EXCEPT ![r] = IdleSlot]
    /\ UNCHANGED <<users, password, issued, issuedAt, usedBy, wrongSubmitted,
                   resets, lag>>
    /\ OTPFrame

verify(r) ==
    \/ \E e \in Emails, p \in Purposes, code \in SubmittedCodes : verify_get(r, e, p, code)
    \/ verify_delete(r)
    \/ verify_ttl(r)
    \/ verify_set(r)

\* RegistrationCompleteWithOTPSerializer.validate, lines 268-282 (the
\* passwords of the request are well formed)
complete_validate(r, email, pw) ==
    /\ Free(r)
    /\ LET cached_data == OtpGet(generate_key(email, PURPOSE_SIGNUP))
       IN  /\ cached_data # NoData
           /\ loads(cached_data).verified
           /\ req' = [req EXCEPT ![r] =
                        [IdleSlot EXCEPT !.kind = "complete", !.pc = "create",
                                         !.email = email, !.new_password = pw,
                                         !.otp_data = loads(cached_data)]]
    /\ UNCHANGED <<otp, users, password, issued, issuedAt, usedBy, wrongSubmitted,
                   lateAccept, resets, lag>>
    /\ OTPFrame

\* RegistrationCompleteWithOTPSerializer.create, lines 284-295:
\* User.objects.create_user; a second row for the email violates unique=True
\* and the view answers 500 (views.py 121-126)
complete_create(r) ==
    /\ req[r].kind = "complete" /\ req[r].pc = "create"
    /\ IF req[r].email \in users
       THEN /\ req' = [req EXCEPT ![r] = IdleSlot]
            /\ UNCHANGED <<users, password, usedBy>>
       ELSE /\ users' = users \cup {req[r].email}
            /\ password' = [password EXCEPT ![req[r].email] = req[r].new_password]
            /\ usedBy' = Inc(usedBy, req[r].otp_data.id, 2)
            /\ req' = [req EXCEPT ![r] = [@ EXCEPT !.pc = "delete"]]
    /\ UNCHANGED <<otp, issued, issuedAt, wrongSubmitted, lateAccept, resets, lag>>
    /\ OTPFrame

\* RegistrationCompleteWithOTPSerializer.create, lines 297-299
complete_delete(r) ==
    /\ req[r].kind = "complete" /\ req[r].pc = "delete"
    /\ otp' = OtpDelete(generate_key(req[r].email, PURPOSE_SIGNUP))
    /\ req' = [req EXCEPT ![r] = IdleSlot]
    /\ UNCHANGED <<users, password, issued, issuedAt, usedBy, wrongSubmitted,
                   lateAccept, resets, lag>>
    /\ OTPFrame

signup_complete(r) ==
    \/ \E e \in Emails, pw \in Passwords : complete_validate(r, e, pw)
    \/ complete_create(r)
    \/ complete_delete(r)

\* PasswordResetWithOTPSerializer.validate, lines 312-332
reset_validate(r, email, pw) ==
    /\ Free(r)
    /\ resets < MaxResets
    /\ LET cached_data == OtpGet(generate_key(email, PURPOSE_PASSWORD_RESET))
       IN  /\ cached_data # NoData
           /\ loads(cached_data).verified
           /\ email \in users
           /\ req' = [req EXCEPT ![r] =
                        [IdleSlot EXCEPT !.kind = "reset", !.pc = "set_password",
                                         !.email = email, !.new_password = pw,
                                         !.otp_data = loads(cached_data)]]
    /\ UNCHANGED <<otp, users, password, issued, issuedAt, usedBy, wrongSubmitted,
                   lateAccept, resets, lag>>
    /\ OTPFrame

\* PasswordResetWithOTPSerializer.create, lines 334-337
reset_set_password(r) ==
    /\ req[r].kind = "reset" /\ req[r].pc = "set_password"
    /\ password' = [password EXCEPT ![req[r].email] = req[r].new_password]
    /\ resets' = resets + 1
    /\ usedBy' = Inc(usedBy, req[r].otp_data.id, 2)
    /\ req' = [req EXCEPT ![r] = [@ EXCEPT !.pc = "delete"]]
    /\ UNCHANGED <<otp, users, issued, issuedAt, wrongSubmitted, lateAccept, lag>>
    /\ OTPFrame

\* PasswordResetWithOTPSerializer.create, lines 338-340
reset_delete(r) ==
    /\ req[r].kind = "reset" /\ req[r].pc = "delete"
    /\ otp' = OtpDelete(generate_key(req[r].email, PURPOSE_PASSWORD_RESET))
    /\ req' = [req EXCEPT ![r] = IdleSlot]
    /\ UNCHANGED <<users, password, issued, issuedAt, usedBy, wrongSubmitted,
                   lateAccept, resets, lag>>
    /\ OTPFrame

password_reset_confirm(r) ==
    \/ \E e \in Emails, pw \in Passwords : reset_validate(r, e, pw)
    \/ reset_set_password(r)
    \/ reset_delete(r)

\* Time passes while no request is being served: up to the last second
\* before the next OTP key expires, or to its expiry
TickIdle ==
    /\ \A r \in Slots : req[r].kind = "idle"
    /\ \E k \in OTPKeys :
         /\ otp[k].exp > now
         /\ \A j \in OTPKeys : otp[j].exp > now => otp[k].exp <= otp[j].exp
         /\ \E t \in {otp[k].exp - 1, otp[k].exp} : t > now /\ now' = t
    /\ UNCHANGED <<tokenVars, otpVars, rateVars, retryVars, singletonVars>>

\* A second goes by between two commands of a request being served
TickLag ==
    /\ \E r \in Slots : req[r].kind # "idle"
    /\ lag < MaxLag
    /\ lag' = lag + 1
    /\ now' = now + 1
    /\ UNCHANGED <<otp, users, password, req, issued, issuedAt, usedBy,
                   wrongSubmitted, lateAccept, resets>>
    /\ UNCHANGED <<tokenVars, rateVars, retryVars, singletonVars>>

IdleToken ==
    /\ cacheTok = [val |-> None, exp |-> 0]
    /\ cacheExp = [val |-> NoStr, exp |-> 0, of |-> None]
    /\ realExpiry = <<>>
    /\ cacheLock = [holder |-> NoOne, exp |-> 0]
    /\ localLock = [p \in Procs |-> NoOne]
    /\ procOf = [c \in Callers |-> "A"]
    /\ th = [c \in Callers |-> Fresh]
    /\ nextToken = 1
    /\ failed = FALSE

\* The database holds any set of registered users; Redis holds no OTP
InitOTP ==
    /\ now = 0
    /\ otp = [k \in OTPKeys |-> Missing]
    /\ users \in SUBSET Emails
    /\ password = [e \in Emails |-> "pw0"]
    /\ req = [r \in Slots |-> IdleSlot]
    /\ issued = 0
    /\ issuedAt = [i \in 1..(MaxIssues + 1) |-> 0]
    /\ usedBy = [i \in 1..(MaxIssues + 1) |-> 0]
    /\ wrongSubmitted = [i \in 1..(MaxIssues + 1) |-> 0]
    /\ lateAccept = FALSE
    /\ resets = 0
    /\ lag = 0
    /\ IdleToken /\ IdleRate /\ IdleRetry /\ IdleSingleton

NextOTP ==
    \/ \E e \in Emails, p \in Purposes, code \in GeneratedCodes, m \in BOOLEAN :
         issue(e, p, code, m)
    \/ \E r \in Slots : verify(r)
    \/ \E r \in Slots : signup_complete(r)
    \/ \E r \in Slots : password_reset_confirm(r)
    \/ TickIdle
    \/ TickLag

SpecOTP == InitOTP /\ [][NextOTP]_vars

\* A verified OTP of this purpose exists in Redis for the email
VerifiedOTP(email, purpose) ==
    LET cached_data == OtpGet(generate_key(email, purpose))
    IN  cached_data # NoData /\ loads(cached_data).verified

\* C5: the signup-complete endpoint creates a User for an email only if, at
\* the time of creation, an OTP with purpose signup and verified=True exists
\* for that email.
C5_SignupNeedsVerifiedOTP ==
    [][\A e \in Emails :
         (e \in users' /\ e \notin users) => VerifiedOTP(e, PURPOSE_SIGNUP)]_vars

\* C6: the password-reset-confirm endpoint changes a user's password only if
\* an OTP with purpose password_reset and verified=True exists for that
\* user's email (so an OTP verified for purpose signup does not authorise it).
C6_ResetNeedsVerifiedOTP ==
    [][\A r \in Slots :
         (req[r].pc = "set_password" /\ req'[r].pc = "delete")
            => VerifiedOTP(req[r].email, PURPOSE_PASSWORD_RESET)]_vars

\* C7: an OTP is one-time: no issued OTP authorises more than one signup
\* completion or password reset, whatever the interleaving of requests.
C7_OneTime == \A i \in 1..MaxIssues : usedBy[i] <= 1

\* C8: once 5 wrong codes have been submitted against an issued OTP, no
\* later verify for it succeeds, not even with the correct code.
C8_AttemptsLimited == ~lateAccept

\* C9: an OTP expires at the TTL set when it was issued: it never exists in
\* the cache at or after issue time + TTL, whatever verify calls were made.
C9_ExpiresAtIssuedTTL ==
    \A k \in OTPKeys :
        OtpGet(k) # NoData
           => now < issuedAt[loads(OtpGet(k)).id] + DEFAULT_TTL_MINUTES * 60

(***************************************************************************)
(* stocks/utils.py: rate_limit_decorator                                   *)
(* One thread calls the decorated functions one after the other; the three *)
(* module globals are shared by all of them.  Times are whole seconds.     *)
(***************************************************************************)

MaxRateTime == 130
Gaps == {0, 1, 5, 20, 61}      \* seconds the caller lets pass before a call

\* @rate_limit_decorator(min_interval=5.0, max_calls_per_minute=5) and
\* @rate_limit_decorator(min_interval=8.0, max_calls_per_minute=3)
StockData == [name |-> "get_stock_data", min_interval |-> 5,
              max_calls_per_minute |-> 5]
EnhancedStockData == [name |-> "get_enhanced_stock_data", min_interval |-> 8,
                      max_calls_per_minute |-> 3]
Decorated == {StockData, EnhancedStockData}

\* timedelta.seconds of a non-negative difference
timedelta_seconds(d) == d % 86400

\* The starts of the last 60 seconds up to and including the one at t
Recent(log, t) == SelectSeq(log, LAMBDA s : s.t > t - 60)

StartsOf(name) == Cardinality({i \in 1..Len(starts) : starts[i].f = name})

\* wrapper(*args, **kwargs), called `gap` seconds after the previous call
\* returned; time.sleep moves the clock
wrapper(f, gap) ==
    /\ now + gap <= MaxRateTime
    /\ LET current_time == now + gap
           expired == current_time - rate_limit_window > 60
           count1 == IF expired THEN 0 ELSE api_call_count
           window1 == IF expired THEN current_time ELSE rate_limit_window
           limited == count1 >= f.max_calls_per_minute
           wait_limit == 60 - timedelta_seconds(current_time - window1)
           after_limit == IF limited THEN current_time + wait_limit ELSE current_time
           count2 == IF limited THEN 0 ELSE count1
           window2 == IF limited THEN after_limit ELSE window1
           elapsed == current_time - last_api_call
           wait_interval == IF last_api_call # NeverCalled /\ elapsed < f.min_interval
                            THEN f.min_interval - elapsed ELSE 0
           started == after_limit + wait_interval
       IN  /\ now' = started
           /\ last_api_call' = started
           /\ api_call_count' = count2 + 1
           /\ rate_limit_window' = window2
           /\ starts' = Recent(Append(starts, [t |-> started, f |-> f.name]), started)
    /\ UNCHANGED <<tokenVars, otpVars, retryVars, singletonVars>>

get_stock_data == \E gap \in Gaps : wrapper(StockData, gap)
get_enhanced_stock_data == \E gap \in Gaps : wrapper(EnhancedStockData, gap)

\* The module has just been imported: _rate_limit_window = datetime.now()
InitRate ==
    /\ now = 0
    /\ last_api_call = NeverCalled
    /\ api_call_count = 0
    /\ rate_limit_window = 0
    /\ starts = <<>>
    /\ IdleToken /\ IdleOTP /\ IdleRetry /\ IdleSingleton

NextRate == get_stock_data \/ get_enhanced_stock_data

SpecRate == InitRate /\ [][NextRate]_vars

\* C10: rate_limit_decorator(min_interval, max_calls_per_minute) lets the
\* wrapped function start at most max_calls_per_minute times within any
\* period of 60 seconds.
C10_MaxCallsPerMinute ==
    \A f \in Decorated : StartsOf(f.name) <= f.max_calls_per_minute

(***************************************************************************)
(* stocks/utils.py: retry_on_429                                           *)
(* One call of a decorated function.  An error message is the sequence of  *)
(* its words; time.sleep moves the clock.                                  *)
(***************************************************************************)

\* @retry_on_429(max_retries=2, base_delay=3.0) and
\* @retry_on_429(max_retries=1, base_delay=5.0)
RetryDecorated == {[max_retries |-> 2, base_delay |-> 3],
                   [max_retries |-> 1, base_delay |-> 5]}

\* str(e) of the exceptions the wrapped function may raise
ErrorMessages ==
    {<<"429", "Client", "Error:", "Too", "Many", "Requests">>,
     <<"Too", "Many", "Requests">>,
     <<"Rate", "limit", "exceeded">>,
     <<"Connection", "reset", "by", "peer">>,
     <<"No", "data", "found">>}

\* random.uniform(0, 1), in whole seconds
Jitter == {0, 1}

\* str.lower(), word by word
lower_word(w) ==
    CASE w = "Too" -> "too"
      [] w = "Many" -> "many"
      [] w = "Requests" -> "requests"
      [] w = "Rate" -> "rate"
      [] w = "Client" -> "client"
      [] w = "Error:" -> "error:"
      [] w = "Connection" -> "connection"
      [] w = "No" -> "no"
      [] OTHER -> w
lower(msg) == [i \in 1..Len(msg) |-> lower_word(msg[i])]

\* `phrase in error_str`
Contains(error_str, phrase) ==
    \E i \in 0..(Len(error_str) - Len(phrase)) :
        \A j \in 1..Len(phrase) : error_str[i + j] = phrase[j]

\* lines 99-103: the test for a 429 / rate limit error
Is429_NoRateLimit(error_str) ==
    \/ Contains(error_str, <<"429">>)
    \/ Contains(error_str, <<"too", "many", "requests">>)
Is429(error_str) ==
    \/ Contains(error_str, <<"429">>)
    \/ Contains(error_str, <<"too", "many", "requests">>)
    \/ Contains(error_str, <<"rate", "limit">>)

\* wrapper() has just been entered: for attempt in range(max_retries + 1).
\* calls lists what each call of func did, slept each time.sleep(delay).
Entered(f) == [f |-> f, pc |-> "call", attempt |-> 0, calls |-> <<>>,
               slept |-> <<>>, result |-> <<"none", <<>> >>]

RetryFrame == UNCHANGED <<tokenVars, otpVars, rateVars, singletonVars>>

\* lines 92-119: one pass of the loop body, func(*args, **kwargs) and the
\* except clause; line 120, `return None`, when the range is used up
retry_call ==
    /\ rt.pc = "call"
    /\ IF rt.attempt > rt.f.max_retries
       THEN rt' = [rt EXCEPT !.pc = "done", !.result = <<"return", <<"None">> >>]
       ELSE \E o \in {<<"value">>} \cup ErrorMessages :
              LET called == [rt EXCEPT !.calls = Append(@, o)]
              IN  IF o = <<"value">>
                  THEN rt' = [called EXCEPT !.pc = "done", !.result = <<"return", o>>]
                  ELSE IF Is429(lower(o))
                  THEN IF rt.attempt < rt.f.max_retries
                       THEN rt' = [called EXCEPT !.pc = "sleep"]
                       ELSE rt' = [called EXCEPT !.pc = "done",
                                                 !.result = <<"return", <<"None">> >>]
                  ELSE rt' = [called EXCEPT !.pc = "done", !.result = <<"raise", o>>]
    /\ UNCHANGED now
    /\ RetryFrame

\* lines 106-112: delay = base_delay * (2**attempt) + random.uniform(0, 1);
\* time.sleep(delay); continue
retry_sleep ==
    /\ rt.pc = "sleep"
    /\ \E j \in Jitter :
         LET delay == rt.f.base_delay * Pow2(rt.attempt) + j
         IN  /\ now' = now + delay
             /\ rt' = [rt EXCEPT !.pc = "call", !.attempt = @ + 1,
                                 !.slept = Append(@, delay)]
    /\ RetryFrame

InitRetry ==
    /\ now = 0
    /\ rt \in {Entered(f) : f \in RetryDecorated}
    /\ IdleToken /\ IdleOTP /\ IdleRate /\ IdleSingleton

NextRetry == retry_call \/ retry_sleep

SpecRetry == InitRetry /\ [][NextRetry]_vars

\* The errors of ErrorMessages that mention 429, too many requests or rate limit
C11_Mentioning ==
    {<<"429", "Client", "Error:", "Too", "Many", "Requests">>,
     <<"Too", "Many", "Requests">>,
     <<"Rate", "limit", "exceeded">>}

\* C11: retry_on_429(max_retries, base_delay) calls the wrapped function at
\* most max_retries + 1 times; every call but the last raised an error
\* mentioning 429 / too many requests / rate limit and was followed by a
\* sleep of base_delay * 2^attempt seconds plus at most 1 s; None is returned
\* exactly when max_retries + 1 calls raised such an error; any other error
\* is re-raised by the call that met it, with no sleep after it.
C11_RetryOn429 ==
    /\ Len(rt.calls) <= rt.f.max_retries + 1
    /\ Len(rt.slept) <= Len(rt.calls)
    /\ \A i \in 1..Len(rt.slept) :
         /\ rt.calls[i] \in C11_Mentioning
         /\ rt.slept[i] - rt.f.base_delay * Pow2(i - 1) \in 0..1
    /\ \A i \in 1..Len(rt.calls) :
         (rt.pc = "call" \/ i < Len(rt.calls)) => i <= Len(rt.slept)
    /\ rt.pc = "done" =>
         LET last == rt.calls[Len(rt.calls)]
         IN  /\ Len(rt.slept) = Len(rt.calls) - 1
             /\ last = <<"value">> => rt.result = <<"return", last>>
             /\ (last \in C11_Mentioning)
                  <=> (rt.result = <<"return", <<"None">> >>)
             /\ rt.result = <<"return", <<"None">> >>
                  => Len(rt.calls) = rt.f.max_retries + 1
             /\ (last \notin C11_Mentioning /\ last # <<"value">>)
                  => rt.result = <<"raise", last>>

C11_Witness ==
    /\ rt.pc = "done"
    /\ rt.result = <<"return", <<"None">> >>
    /\ Len(rt.calls) = rt.f.max_retries + 1
    /\ Len(rt.slept) = rt.f.max_retries

----------------------------------------------------------------------------
(* Further claims about KISTokenManager, checked under SpecToken *)

\* Caller c is executing the cache.delete(TOKEN_LOCK_KEY) of the finally block
Releasing(c) == th[c].pc = "release" /\ th'[c].pc # "release"

\* C12: a caller deletes kis_api_token_lock only while it is the holder: no
\* release removes a lock that is live and was acquired by another caller.
C12_ReleaseOwnLock ==
    [][\A c \in Callers :
         Releasing(c) => ~(now < cacheLock.exp /\ cacheLock.holder # c)]_vars

\* C13: a single get_token call sends at most one token-issuance request to
\* KIS, also when that request fails.
C13_OneRequestPerCall == \A c \in Callers : th[c].reqs <= 1

\* Caller c finds the token it read valid against the expiry it reads now
\* (get_token line 85, _refresh_token lines 147 and 169)
Validates(c) ==
    /\ th[c].pc \in {"gt_exp", "wait_exp", "dc_exp"}
    /\ th'[c] # th[c]
    /\ TokenValid(th[c].token, CacheGet(cacheExp, NoStr))

\* C14: the cached token and the cached expiry belong to the same issuance
\* whenever they are used together: no get_token call validates a token
\* against an expiry that was written for a different token.
C14_SameIssuance ==
    [][\A c \in Callers : Validates(c) => cacheExp.of = th[c].token]_vars

\* The expiry written by cache.set(TOKEN_EXPIRES_KEY, ...) is the token's
\* issue time + expires_in - TOKEN_BUFFER_TIME
StoredExpiryHasBuffer ==
    cacheExp' # cacheExp =>
        fromisoformat(cacheExp'.val) = realExpiry[cacheExp'.of] - TOKEN_BUFFER_TIME

\* C18: tokens are renewed 5 minutes before their real expiry: the expiry
\* stored with a token is issue time + expires_in - 300 seconds, and no token
\* is served from the cache (found valid by a get_token call) during the last
\* 300 seconds of its lifetime.
C18_RenewedBeforeExpiry ==
    [][/\ StoredExpiryHasBuffer
       /\ \A c \in Callers :
            Validates(c) => now < realExpiry[th[c].token] - TOKEN_BUFFER_TIME]_vars

\* The caller has acquired kis_api_token_lock and is inside the try block of
\* lines 161-186 (the request of line 176 and the finally block included)
C15_InLockedSection(t) ==
    \/ t.pc \in {"dc_tok", "dc_exp", "release"}
    \/ t.ctx = "locked"

C16_Waits == <<2, 4, 8, 16, 32>>

\* The token the caller read after a wait is usable: both keys were found
\* and the stored expiry is in the future
C16_FoundUnexpired(c) ==
    /\ th[c].token # None
    /\ now < cacheExp.exp
    /\ cacheExp.val # NoStr
    /\ now < cacheExp.val[2]

\* C16: a caller that fails to acquire the lock waits 2, 4, 8, 16 and 32
\* seconds in turn (at most 5 waits), re-reads the cache after each wait and
\* returns the token as soon as it finds an unexpired one; only after all 5
\* waits without a valid token does it request a token itself.
C16_Backoff ==
    [][\A c \in Callers :
         \* a wait begins: the first after the failed cache.add, the next
         \* after a read that found no valid token; its length is the next of
         \* the five
         /\ (th'[c].pc = "wait_tok" /\ th[c].pc # "wait_tok")
              => /\ th'[c].retry + 1 \in 1..5
                 /\ th'[c].wake = now + C16_Waits[th'[c].retry + 1]
                 /\ th'[c].retry = IF th[c].pc = "refresh" THEN 0 ELSE th[c].retry + 1
                 /\ th[c].pc \in {"refresh", "wait_exp"}
         \* the cache is re-read only when the wait is over
         /\ (th[c].pc = "wait_tok" /\ th'[c].pc # "wait_tok")
              => (now >= th[c].wake /\ th'[c].pc = "wait_exp")
         \* after the re-read: return the token found, wait again, or after
         \* the fifth wait send the request
         /\ (th[c].pc = "wait_exp" /\ th'[c] # th[c])
              => IF C16_FoundUnexpired(c)
                 THEN /\ th'[c].pc = "done"
                      /\ th'[c].result = <<"ok", th[c].token>>
                      /\ th'[c].reqs = 0
                 ELSE IF th[c].retry + 1 < 5
                 THEN th'[c].pc = "wait_tok"
                 ELSE th'[c].pc = "await" /\ th'[c].ctx = "wait"
         \* the waiting caller's own request comes only after the fifth wait
         /\ (th'[c].ctx = "wait" /\ th[c].ctx # "wait")
              => (th[c].pc = "wait_exp" /\ th[c].retry = 4 /\ th[c].reqs = 0)]_vars

\* A caller has waited five times (62 s) and sent its own request
C16_Witness ==
    \E c \in Callers : th[c].ctx = "wait" /\ th[c].pc = "await" /\ now >= 62

----------------------------------------------------------------------------
(* Termination of get_token, checked under SpecTokenLive: the scheduler runs *)
(* every thread that can take a step, the clock advances, and a call that    *)
(* has begun is followed to its end however late that is.                    *)

Running(c) == th[c].pc \notin {"idle", "done"}

\* The instants the running calls are waiting for: the end of a time.sleep,
\* the expiry of the lock key
LiveDeadlines ==
    {th[c].wake : c \in {d \in Callers : th[d].pc = "wait_tok"}} \cup {cacheLock.exp}

\* Time passes while a call is running, up to the next such instant
TickLive ==
    /\ \E t \in LiveDeadlines :
         /\ t > now
         /\ \E c \in Callers : Running(c)
         /\ \A u \in LiveDeadlines : u > now => t <= u
         /\ now' = t
    /\ UNCHANGED <<tokenVars, otpVars, rateVars, retryVars, singletonVars>>

\* The steps of the thread of caller c
Thread(c) ==
    get_token(c) \/ refresh_token(c) \/ request_new_token(c)
       \/ request_new_token_direct(c)

NextTokenLive == (\E c \in Callers : Thread(c)) \/ TickLive

SpecTokenLive ==
    /\ InitTokenSpec
    /\ [][NextTokenLive]_vars
    /\ WF_vars(TickLive)
    /\ \A c \in Callers : WF_vars(Thread(c))

\* C17: every get_token call terminates: in every interleaving of the
\* callers, a call that has begun eventually returns a token or raises
\* KISTokenError (no deadlock on the local lock or the Redis lock, no
\* unbounded waiting).
C17_Terminates ==
    \A c \in Callers :
        Running(c) ~> (/\ th[c].pc = "done"
                       /\ \/ th[c].result[1] = "ok"
                          \/ th[c].result = <<"raise", "KISTokenError">>)

\* Both calls have ended; one of them had to wait for the other's lock
C17_Witness ==
    /\ \A c \in Callers : th[c].pc = "done"
    /\ \E c \in Callers : th[c].via = "waited"

(***************************************************************************)
(* stocks/token_manager.py: get_token_manager                              *)
(* The threads of one worker process call get_token_manager (each request  *)
(* constructs a KISAPIClient); the interpreter may switch threads between   *)
(* any two statements.                                                     *)
(***************************************************************************)

Threads == {"t1", "t2"}
MaxCalls == 2

\* A thread outside get_token_manager.  obj is the object its
\* KISTokenManager() expression produced, got the instances returned to it.
Outside == [pc |-> "idle", obj |-> None, got |-> {}, calls |-> 0]

SingletonFrame == UNCHANGED <<now, tokenVars, otpVars, rateVars, retryVars>>

\* line 408: if _token_manager is None:
gm_test(t) ==
    /\ mgr[t].pc = "idle"
    /\ mgr[t].calls < MaxCalls
    /\ mgr' = [mgr EXCEPT ![t] =
                 [@ EXCEPT !.calls = @ + 1,
                           !.pc = IF token_manager = None THEN "construct"
                                  ELSE "return"]]
    /\ UNCHANGED <<token_manager, instances>>
    /\ SingletonFrame

\* line 409, right-hand side: KISTokenManager() makes a new object, with its
\* own threading.Lock (the KIS_APP_KEY / KIS_APP_SECRET variables are set)
gm_construct(t) ==
    /\ mgr[t].pc = "construct"
    /\ instances' = instances + 1
    /\ mgr' = [mgr EXCEPT ![t] = [@ EXCEPT !.pc = "store", !.obj = instances + 1]]
    /\ UNCHANGED token_manager
    /\ SingletonFrame

\* line 409, the assignment: _token_manager = <that object>
gm_store(t) ==
    /\ mgr[t].pc = "store"
    /\ token_manager' = mgr[t].obj
    /\ mgr' = [mgr EXCEPT ![t] = [@ EXCEPT !.pc = "return", !.obj = None]]
    /\ UNCHANGED instances
    /\ SingletonFrame

\* line 410: return _token_manager
gm_return(t) ==
    /\ mgr[t].pc = "return"
    /\ mgr' = [mgr EXCEPT ![t] = [@ EXCEPT !.pc = "idle",
                                          !.got = @ \cup {token_manager}]]
    /\ UNCHANGED <<token_manager, instances>>
    /\ SingletonFrame

get_token_manager(t) == gm_test(t) \/ gm_construct(t) \/ gm_store(t) \/ gm_return(t)

\* The module has been imported: _token_manager = None
InitSingleton ==
    /\ now = 0
    /\ token_manager = None
    /\ mgr = [t \in Threads |-> Outside]
    /\ instances = 0
    /\ IdleToken /\ IdleOTP /\ IdleRate /\ IdleRetry

NextSingleton == \E t \in Threads : get_token_manager(t)

SpecSingleton == InitSingleton /\ [][NextSingleton]_vars

\* C19: get_token_manager is a singleton: every call in a process, also
\* first calls made concurrently from several threads, returns the same
\* KISTokenManager instance (so all threads share one local lock).
C19_Singleton ==
    Cardinality(UNION {mgr[t].got : t \in Threads}) <= 1

====
